---- MODULE Spec2Model ----
(***************************************************************************)
(* A model of html/module2.py: the two functions calc_det and              *)
(* serialize_graph, called repeatedly and in any interleaving from a       *)
(* small set of call sites.                                                *)
(*                                                                         *)
(* The library calls are modelled by what the libraries do:                *)
(*  - np.linalg.det is LAPACK getrf (LU with partial pivoting) followed by *)
(*    sign * exp(sum log|u_ii|), all in binary64;                          *)
(*  - rdflib's Graph is a store of unique triples, Graph.serialize() is    *)
(*    the Turtle serializer (prefix directives, subjects and predicates    *)
(*    sorted, prefixed names for bound namespaces).                        *)
(***************************************************************************)
EXTENDS Integers, Sequences, FiniteSets, TLC

VARIABLES pc, a, g, alice, bob, ret, stdout, calls, roundErr

vars == <<pc, a, g, alice, bob, ret, stdout, calls, roundErr>>

(***************************************************************************)
(* Bounds of the model.                                                    *)
(***************************************************************************)
\* number of call sites that may call the two functions
NumCallers == 2
\* calls made at most, by all call sites together
MaxCalls == 3
\* largest rounding error (in units in the last place, away from zero) a
\* build's getrf/log/exp pipeline leaves on the determinant
MaxUlpErr == 1

Callers == 1..NumCallers

None == "None"

Abs(x) == IF x < 0 THEN -x ELSE x

Range(s) == {s[i] : i \in 1..Len(s)}

(***************************************************************************)
(* calc_det: the matrix and numpy's determinant.                           *)
(***************************************************************************)
\* np.array([[1, 2], [3, 4]])
Matrix == <<<<1, 2>>, <<3, 4>>>>

\* no array (the name a is not bound)
NoArray == <<>>

\* np.linalg.det requires a square (stacked) matrix, LinAlgError otherwise
IsSquare(m) == \A i \in 1..Len(m) : Len(m[i]) = Len(m)

\* getrf, partial pivoting on column 1 of a 2x2 matrix: the row holding the
\* entry of largest magnitude (the first one on a tie)
PivotRow(m) == IF Abs(m[2][1]) > Abs(m[1][1]) THEN 2 ELSE 1

\* the sign numpy derives from the number of row interchanges
PivotSign(m) == IF PivotRow(m) # 1 THEN -1 ELSE 1

\* the exact product of the diagonal of U: u11 * (a_q2 - (a_q1/u11) * a_p2),
\* p the pivot row and q the other one; 0 when the pivot is 0 (singular)
DiagProduct(m) ==
    LET p == PivotRow(m)
        q == 3 - p
    IN  IF m[p][1] = 0 THEN 0
        ELSE m[q][2] * m[p][1] - m[q][1] * m[p][2]

\* np.linalg.det(m) as a binary64 value: the float `ulps` units in the last
\* place away from the integer `ideal` (positive: away from zero).  The
\* multiplier 1/3, the logarithms and the exponential are all rounded, so a
\* nonzero determinant carries the build's rounding error err.
LinalgDet(m, err) ==
    LET d == PivotSign(m) * DiagProduct(m)
    IN  [ideal |-> d, ulps |-> IF d = 0 THEN 0 ELSE err]

\* repr() of a Python float (the shortest string that reads back as the same
\* binary64), for the floats within three ulps of +-2 and the exact integers
FloatRepr(x) ==
    LET sgn == IF x.ideal < 0 THEN "-" ELSE ""
    IN  IF x.ulps = 0 THEN ToString(x.ideal) \o ".0"
        ELSE IF Abs(x.ideal) = 2 /\ x.ulps = 1 THEN sgn \o "2.0000000000000004"
        ELSE IF Abs(x.ideal) = 2 /\ x.ulps = 2 THEN sgn \o "2.000000000000001"
        ELSE IF Abs(x.ideal) = 2 /\ x.ulps = 3 THEN sgn \o "2.0000000000000013"
        ELSE IF Abs(x.ideal) = 2 /\ x.ulps = -1 THEN sgn \o "1.9999999999999998"
        ELSE IF Abs(x.ideal) = 2 /\ x.ulps = -2 THEN sgn \o "1.9999999999999996"
        ELSE IF Abs(x.ideal) = 2 /\ x.ulps = -3 THEN sgn \o "1.9999999999999993"
        ELSE ToString(x.ideal) \o ".0~" \o ToString(x.ulps)

\* f"Determinant is {np.linalg.det(a)}"
DetMessage(m, err) == "Determinant is " \o FloatRepr(LinalgDet(m, err))

(***************************************************************************)
(* serialize_graph: RDF terms and the graph.                               *)
(***************************************************************************)
ExampleNS == "http://example.org/"
\* rdflib.namespace.FOAF
FoafNS == "http://xmlns.com/foaf/0.1/"

URIRef(v) == [kind |-> "URIRef", value |-> v, language |-> None, datatype |-> None]

\* Literal(v): no lang and no datatype argument, so a plain literal
Literal(v) == [kind |-> "Literal", value |-> v, language |-> None, datatype |-> None]

\* isinstance(t, Node)
IsNode(t) == t.kind \in {"URIRef", "Literal", "BNode"}

\* a name that is not bound to a term
NoTerm == [kind |-> "unbound", value |-> "", language |-> None, datatype |-> None]

FoafName == URIRef(FoafNS \o "name")
FoafKnows == URIRef(FoafNS \o "knows")

\* no graph object (the name g is not bound)
NoGraph == [live |-> FALSE, store |-> <<>>]

\* Graph(): a new graph object with an empty store
EmptyGraph == [live |-> TRUE, store |-> <<>>]

\* a list store: add appends whether or not the triple is held
GraphAddAppend(gr, t) == [gr EXCEPT !.store = Append(gr.store, t)]

\* Graph.add: the store holds each triple once; adding a triple it holds
\* changes nothing
GraphAdd(gr, t) ==
    IF t \in Range(gr.store) THEN gr
    ELSE [gr EXCEPT !.store = Append(gr.store, t)]

\* the assertions of Graph.add: subject, predicate and object are nodes
AddAccepts(t) == IsNode(t[1]) /\ IsNode(t[2]) /\ IsNode(t[3])

\* the triples a graph holds, and len(graph)
Triples(gr) == Range(gr.store)
GraphLen(gr) == Len(gr.store)

(***************************************************************************)
(* Graph.serialize(): rdflib's default format, Turtle.  The document is    *)
(* modelled as its sequence of tokens.                                     *)
(***************************************************************************)
\* the namespaces a new Graph's namespace manager has bound (those of the
\* default bindings this model needs to tell apart)
Bindings ==
    { <<"foaf", FoafNS>>,
      <<"rdf", "http://www.w3.org/1999/02/22-rdf-syntax-ns#">>,
      <<"xsd", "http://www.w3.org/2001/XMLSchema#">> }

Namespaces == {b[2] : b \in Bindings} \cup {ExampleNS}
LocalNames == {"alice", "bob", "name", "knows"}

\* the strings of the program in Python's str order (code point order)
StringOrder ==
    << "Alice", "Bob", ExampleNS \o "alice", ExampleNS \o "bob",
       FoafNS \o "knows", FoafNS \o "name", "foaf", "rdf", "xsd" >>

StrRank(s) == CHOOSE i \in 1..Len(StringOrder) : StringOrder[i] = s

\* rdflib orders a URIRef before a Literal, and terms of one kind by value
TermLess(x, y) ==
    IF x.kind # y.kind THEN x.kind = "URIRef"
    ELSE StrRank(x.value) < StrRank(y.value)

\* sorted(S): the elements of S in the strict total order lt, a set of
\* pairs <<smaller, larger>>
Sorted(S, lt) ==
    [i \in 1..Cardinality(S) |->
        CHOOSE x \in S : Cardinality({y \in S : <<y, x>> \in lt}) = i - 1]

\* the pairs of terms of S in rdflib's order
TermOrder(S) == {xy \in S \X S : TermLess(xy[1], xy[2])}

\* the sequences of ss in order, with the token sep between two of them
Join(ss, sep) ==
    LET upto[i \in 0..Len(ss)] ==
            IF i = 0 THEN <<>>
            ELSE IF i = 1 THEN ss[1]
            ELSE upto[i - 1] \o <<sep>> \o ss[i]
    IN  upto[Len(ss)]

\* the IRIs made of a known namespace and a known local name, each with its
\* two parts
SplitTable ==
    [uri \in {ns \o l : ns \in Namespaces, l \in LocalNames} |->
        CHOOSE s \in Namespaces \X LocalNames : s[1] \o s[2] = uri]

\* split_uri: the namespace and the local name of an IRI
SplitUri(uri) == SplitTable[uri]

NoQName == <<>>

\* compute_qname(uri, generate=False): the bound prefix of the IRI's
\* namespace and the local name, or no name when no prefix is bound for it
GetQName(uri) ==
    LET s == SplitUri(uri)
    IN  IF \E b \in Bindings : b[2] = s[1]
        THEN <<(CHOOSE b \in Bindings : b[2] = s[1])[1], s[2]>>
        ELSE NoQName

Dot == [tok |-> "."]
Semi == [tok |-> ";"]
Comma == [tok |-> ","]

\* TurtleSerializer.label: a prefixed name when the namespace is bound, an
\* IRI in angle brackets otherwise; a plain literal as a quoted string
Label(t) ==
    IF t.kind = "Literal"
    THEN [tok |-> "STRING", lex |-> t.value, language |-> t.language,
          datatype |-> t.datatype]
    ELSE IF GetQName(t.value) # NoQName
         THEN [tok |-> "PNAME", prefix |-> GetQName(t.value)[1],
               local |-> GetQName(t.value)[2]]
         ELSE [tok |-> "IRIREF", iri |-> t.value]

\* the number of triples that have the node as their object
References(gr, n) == Cardinality({t \in Triples(gr) : t[3] = n})

\* orderSubjects: by reference count, then by the subject itself
OrderSubjects(gr) ==
    LET subjects == {t[1] : t \in Triples(gr)}
    IN  Sorted(subjects,
               {xy \in subjects \X subjects :
                   \/ References(gr, xy[1]) < References(gr, xy[2])
                   \/ /\ References(gr, xy[1]) = References(gr, xy[2])
                      /\ TermLess(xy[1], xy[2])})

\* sortProperties: the predicates of a subject, sorted
OrderPredicates(gr, s) ==
    LET predicates == {t[2] : t \in {u \in Triples(gr) : u[1] = s}}
    IN  Sorted(predicates, TermOrder(predicates))

\* the objects of a subject and predicate, sorted
OrderObjects(gr, s, p) ==
    LET objects == {t[3] : t \in {u \in Triples(gr) : u[1] = s /\ u[2] = p}}
    IN  Sorted(objects, TermOrder(objects))

\* objectList: the objects, comma separated
ObjectList(gr, s, p) ==
    LET os == OrderObjects(gr, s, p)
        lab == [o \in Range(os) |-> <<Label(o)>>]
    IN  Join([i \in 1..Len(os) |-> lab[os[i]]], Comma)

\* predicateList: verb and objects of each predicate, semicolon separated
PredicateList(gr, s) ==
    LET ps == OrderPredicates(gr, s)
        po == [p \in Range(ps) |-> <<Label(p)>> \o ObjectList(gr, s, p)]
    IN  Join([i \in 1..Len(ps) |-> po[ps[i]]], Semi)

\* statement: a subject, its predicate list, and the closing dot
Statement(gr, s) == <<Label(s)>> \o PredicateList(gr, s) \o <<Dot>>

\* the prefixes the labels of the graph's terms use
UsedPrefixes(gr) ==
    LET labels == {Label(t[i]) : t \in Triples(gr), i \in 1..3}
    IN  {b \in Bindings : \E l \in labels : l.tok = "PNAME" /\ l.prefix = b[1]}

\* a document that declares none of the prefixes it uses
PrefixDirectivesOmitted(gr) == <<>>

\* startDocument: one @prefix directive per used namespace, sorted by prefix
PrefixDirectives(gr) ==
    LET used == UsedPrefixes(gr)
        bs == Sorted(used, {xy \in used \X used : StrRank(xy[1][1]) < StrRank(xy[2][1])})
    IN  [i \in 1..Len(bs) |-> [tok |-> "@prefix", prefix |-> bs[i][1], ns |-> bs[i][2]]]

\* the sequences of ss, one after the other
Concat(ss) ==
    LET upto[i \in 0..Len(ss)] == IF i = 0 THEN <<>> ELSE upto[i - 1] \o ss[i]
    IN  upto[Len(ss)]

\* the Turtle document of a graph: the prefix directives, then the statement
\* of each subject
TurtleDocument(gr) ==
    LET ss == OrderSubjects(gr)
        st == [s \in Range(ss) |-> Statement(gr, s)]
    IN  PrefixDirectives(gr) \o Concat([i \in 1..Len(ss) |-> st[ss[i]]])

\* the triples serialize_graph adds, and the graphs that hold some of them
ProgramTriples ==
    { <<URIRef(ExampleNS \o "alice"), FoafName, Literal("Alice")>>,
      <<URIRef(ExampleNS \o "bob"), FoafName, Literal("Bob")>>,
      <<URIRef(ExampleNS \o "alice"), FoafKnows, URIRef(ExampleNS \o "bob")>> }

ProgramGraphs ==
    { [live |-> TRUE, store |-> st] :
        st \in { q \in UNION { [1..n -> ProgramTriples] : n \in 0..Cardinality(ProgramTriples) } :
                    \A i, j \in 1..Len(q) : q[i] = q[j] => i = j } }

\* the documents of those graphs, computed once
Documents == [gr \in ProgramGraphs |-> TurtleDocument(gr)]

\* Graph.serialize(): the Turtle document of the graph
Serialize(gr) ==
    IF gr \in ProgramGraphs THEN Documents[gr] ELSE TurtleDocument(gr)

(***************************************************************************)
(* A conformant Turtle parser, over the same tokens: the reader a          *)
(* serialized document is meant for.                                       *)
(***************************************************************************)
BadTerm == [kind |-> "ParseError", value |-> "", language |-> None, datatype |-> None]

ParseError == [ok |-> FALSE, triples |-> {}]

\* the term a token denotes under the prefixes declared so far
Resolve(tk, prefixes) ==
    IF tk.tok = "IRIREF" THEN URIRef(tk.iri)
    ELSE IF tk.tok = "PNAME"
    THEN IF \E b \in prefixes : b[1] = tk.prefix
         THEN URIRef((CHOOSE b \in prefixes : b[1] = tk.prefix)[2] \o tk.local)
         ELSE BadTerm
    ELSE IF tk.tok = "STRING"
    THEN [kind |-> "Literal", value |-> tk.lex, language |-> tk.language,
          datatype |-> tk.datatype]
    ELSE BadTerm

RECURSIVE ParseFrom(_, _, _, _, _, _, _)
\* st: what the grammar expects next; s, p: the current subject and verb
ParseFrom(toks, i, st, prefixes, s, p, acc) ==
    IF i > Len(toks)
    THEN (IF st = "subject" THEN [ok |-> TRUE, triples |-> acc] ELSE ParseError)
    ELSE
    LET tk == toks[i]
        term == Resolve(tk, prefixes)
    IN  IF st = "subject" /\ tk.tok = "@prefix"
        THEN ParseFrom(toks, i + 1, "subject", prefixes \cup {<<tk.prefix, tk.ns>>},
                       s, p, acc)
        ELSE IF st = "subject" /\ tk.tok \in {"IRIREF", "PNAME"} /\ term # BadTerm
        THEN ParseFrom(toks, i + 1, "verb", prefixes, term, p, acc)
        ELSE IF st = "verb" /\ tk.tok \in {"IRIREF", "PNAME"} /\ term # BadTerm
        THEN ParseFrom(toks, i + 1, "object", prefixes, s, term, acc)
        ELSE IF st = "object" /\ tk.tok \in {"IRIREF", "PNAME", "STRING"}
                /\ term # BadTerm
        THEN ParseFrom(toks, i + 1, "more", prefixes, s, p, acc \cup {<<s, p, term>>})
        ELSE IF st = "more" /\ tk.tok = ","
        THEN ParseFrom(toks, i + 1, "object", prefixes, s, p, acc)
        ELSE IF st = "more" /\ tk.tok = ";"
        THEN ParseFrom(toks, i + 1, "verb", prefixes, s, p, acc)
        ELSE IF st = "more" /\ tk.tok = "."
        THEN ParseFrom(toks, i + 1, "subject", prefixes, s, p, acc)
        ELSE ParseError

\* the set of triples a Turtle document states
Parse(toks) == ParseFrom(toks, 1, "subject", {}, BadTerm, BadTerm, {})

(***************************************************************************)
(* The program: each call site is idle or inside one call, at the line it  *)
(* executes next.                                                          *)
(***************************************************************************)
\* Python's None as a returned value (a document is a sequence of tokens)
NoneValue == <<[tok |-> "None"]>>

\* what a call site holds from the last call that ended there: nothing yet,
\* or the function, how the call ended, and the value or the exception
NoResult == [fn |-> "none", status |-> "none", value |-> NoneValue, error |-> ""]
Returned(f, v) == [fn |-> f, status |-> "returned", value |-> v, error |-> ""]
Raised(f, e) == [fn |-> f, status |-> "raised", value |-> NoneValue, error |-> e]

\* the rounding errors a build can show.  For [[1,2],[3,4]] the pivot is 3,
\* the multiplier is the float below 1/3, so u22 = 2 - 4*fl(1/3) is the
\* float above 2/3 and the exact product 3*u22 is 2 + 2^-52: midway between
\* the floats 2 and 2 + 2^-51.  exp(log 3 + log u22) lands on one of the
\* floats at or above 2 in magnitude: a build prints -2.0 or, as CPython
\* on x86-64 does, -2.0000000000000004.
BuildErrs == 0..MaxUlpErr

\* the number of calls made so far, by all call sites together
TotalCalls ==
    LET upto[i \in 0..NumCallers] == IF i = 0 THEN 0 ELSE upto[i - 1] + calls[i]
    IN  upto[NumCallers]

Init ==
    /\ pc = [c \in Callers |-> "idle"]
    /\ a = [c \in Callers |-> NoArray]
    /\ g = [c \in Callers |-> NoGraph]
    /\ alice = [c \in Callers |-> NoTerm]
    /\ bob = [c \in Callers |-> NoTerm]
    /\ ret = [c \in Callers |-> NoResult]
    /\ stdout = <<>>
    /\ calls = [c \in Callers |-> 0]
    /\ roundErr \in BuildErrs

\* ---- calc_det ----------------------------------------------------------

\* a call site calls calc_det()
CallCalcDet(c) ==
    /\ pc[c] = "idle"
    /\ TotalCalls < MaxCalls
    /\ pc' = [pc EXCEPT ![c] = "det7"]
    /\ calls' = [calls EXCEPT ![c] = @ + 1]
    /\ UNCHANGED <<a, g, alice, bob, ret, stdout, roundErr>>

\* an array that is kept and changed between calls
CalcDetArrayDrifting(c) ==
    /\ pc[c] = "det7"
    /\ a' = [a EXCEPT ![c] = IF Len(stdout) > 0 THEN <<<<1, 2>>, <<3, 5>>>> ELSE Matrix]
    /\ pc' = [pc EXCEPT ![c] = "det8"]
    /\ UNCHANGED <<g, alice, bob, ret, stdout, calls, roundErr>>

\* line 7: a = np.array([[1, 2], [3, 4]])
CalcDetArray(c) ==
    /\ pc[c] = "det7"
    /\ a' = [a EXCEPT ![c] = Matrix]
    /\ pc' = [pc EXCEPT ![c] = "det8"]
    /\ UNCHANGED <<g, alice, bob, ret, stdout, calls, roundErr>>

\* the message and then the value on a line of its own
CalcDetPrintTwoLines(c) ==
    /\ pc[c] = "det8"
    /\ stdout' = stdout \o <<"Determinant is", FloatRepr(LinalgDet(a[c], roundErr))>>
    /\ ret' = [ret EXCEPT ![c] = Returned("calc_det", NoneValue)]
    /\ a' = [a EXCEPT ![c] = NoArray]
    /\ pc' = [pc EXCEPT ![c] = "idle"]
    /\ UNCHANGED <<g, alice, bob, calls, roundErr>>

\* line 8: print(f"Determinant is {np.linalg.det(a)}"), then the implicit
\* return None; the local a goes with the frame
CalcDetPrint(c) ==
    /\ pc[c] = "det8"
    /\ IF IsSquare(a[c])
       THEN /\ stdout' = Append(stdout, DetMessage(a[c], roundErr))
            /\ ret' = [ret EXCEPT ![c] = Returned("calc_det", NoneValue)]
       ELSE /\ stdout' = stdout
            /\ ret' = [ret EXCEPT ![c] = Raised("calc_det", "LinAlgError")]
    /\ a' = [a EXCEPT ![c] = NoArray]
    /\ pc' = [pc EXCEPT ![c] = "idle"]
    /\ UNCHANGED <<g, alice, bob, calls, roundErr>>

\* ---- serialize_graph ---------------------------------------------------

\* a call site calls serialize_graph()
CallSerializeGraph(c) ==
    /\ pc[c] = "idle"
    /\ TotalCalls < MaxCalls
    /\ pc' = [pc EXCEPT ![c] = "ser12"]
    /\ calls' = [calls EXCEPT ![c] = @ + 1]
    /\ UNCHANGED <<a, g, alice, bob, ret, stdout, roundErr>>

\* a graph kept at module level: from the second call of a call site on it
\* still holds what the call before added
NewGraphModuleLevel(c) ==
    /\ pc[c] = "ser12"
    /\ g' = [g EXCEPT ![c] =
                IF calls[c] > 1
                THEN [live |-> TRUE,
                      store |-> << <<URIRef(ExampleNS \o "alice"), FoafName, Literal("Alice")>>,
                                   <<URIRef(ExampleNS \o "bob"), FoafName, Literal("Bob")>>,
                                   <<URIRef(ExampleNS \o "alice"), FoafKnows,
                                     URIRef(ExampleNS \o "bob")>> >>]
                ELSE EmptyGraph]
    /\ pc' = [pc EXCEPT ![c] = "ser14"]
    /\ UNCHANGED <<a, alice, bob, ret, stdout, calls, roundErr>>

\* one name g for all call sites: Graph() replaces the graph of every call
NewGraphShared(c) ==
    /\ pc[c] = "ser12"
    /\ g' = [d \in Callers |-> EmptyGraph]
    /\ pc' = [pc EXCEPT ![c] = "ser14"]
    /\ UNCHANGED <<a, alice, bob, ret, stdout, calls, roundErr>>

\* line 12: g = Graph()
NewGraph(c) ==
    /\ pc[c] = "ser12"
    /\ g' = [g EXCEPT ![c] = EmptyGraph]
    /\ pc' = [pc EXCEPT ![c] = "ser14"]
    /\ UNCHANGED <<a, alice, bob, ret, stdout, calls, roundErr>>

\* line 14: alice = URIRef("http://example.org/alice")
BindAlice(c) ==
    /\ pc[c] = "ser14"
    /\ alice' = [alice EXCEPT ![c] = URIRef(ExampleNS \o "alice")]
    /\ pc' = [pc EXCEPT ![c] = "ser15"]
    /\ UNCHANGED <<a, g, bob, ret, stdout, calls, roundErr>>

\* bob bound to the plain str, not to a URIRef
BindBobAsStr(c) ==
    /\ pc[c] = "ser15"
    /\ bob' = [bob EXCEPT ![c] = [kind |-> "str", value |-> ExampleNS \o "bob",
                                  language |-> None, datatype |-> None]]
    /\ pc' = [pc EXCEPT ![c] = "ser17"]
    /\ UNCHANGED <<a, g, alice, ret, stdout, calls, roundErr>>

\* line 15: bob = URIRef("http://example.org/bob")
BindBob(c) ==
    /\ pc[c] = "ser15"
    /\ bob' = [bob EXCEPT ![c] = URIRef(ExampleNS \o "bob")]
    /\ pc' = [pc EXCEPT ![c] = "ser17"]
    /\ UNCHANGED <<a, g, alice, ret, stdout, calls, roundErr>>

\* g.add(t) at the line `at`, going on to the line `next`: the triple joins
\* the store, or the assertions of add fail and the call ends in the error
AddStep(c, at, next, t) ==
    /\ pc[c] = at
    /\ IF AddAccepts(t)
       THEN /\ g' = [g EXCEPT ![c] = GraphAdd(g[c], t)]
            /\ pc' = [pc EXCEPT ![c] = next]
            /\ UNCHANGED <<alice, bob, ret>>
       ELSE /\ g' = [g EXCEPT ![c] = NoGraph]
            /\ alice' = [alice EXCEPT ![c] = NoTerm]
            /\ bob' = [bob EXCEPT ![c] = NoTerm]
            /\ ret' = [ret EXCEPT ![c] = Raised("serialize_graph", "AssertionError")]
            /\ pc' = [pc EXCEPT ![c] = "idle"]
    /\ UNCHANGED <<a, stdout, calls, roundErr>>

\* the adds of lines 17 and 18 in the other order
AddBobNameFirst(c) ==
    AddStep(c, "ser17", "ser18", <<bob[c], FoafName, Literal("Bob")>>)

\* line 17: g.add((alice, FOAF.name, Literal("Alice")))
AddAliceName(c) ==
    AddStep(c, "ser17", "ser18", <<alice[c], FoafName, Literal("Alice")>>)

\* line 18: g.add((bob, FOAF.name, Literal("Bob")))
AddBobName(c) ==
    AddStep(c, "ser18", "ser19", <<bob[c], FoafName, Literal("Bob")>>)

\* line 19: g.add((alice, FOAF.knows, bob))
AddAliceKnowsBob(c) ==
    AddStep(c, "ser19", "ser21", <<alice[c], FoafKnows, bob[c]>>)

\* the document printed as well as returned
ReturnSerializePrints(c) ==
    /\ pc[c] = "ser21"
    /\ ret' = [ret EXCEPT ![c] = Returned("serialize_graph", Serialize(g[c]))]
    /\ stdout' = Append(stdout, "document")
    /\ g' = [g EXCEPT ![c] = NoGraph]
    /\ alice' = [alice EXCEPT ![c] = NoTerm]
    /\ bob' = [bob EXCEPT ![c] = NoTerm]
    /\ pc' = [pc EXCEPT ![c] = "idle"]
    /\ UNCHANGED <<a, calls, roundErr>>

\* line 21: return g.serialize(); the locals g, alice, bob go with the frame
ReturnSerialize(c) ==
    /\ pc[c] = "ser21"
    /\ ret' = [ret EXCEPT ![c] = Returned("serialize_graph", Serialize(g[c]))]
    /\ g' = [g EXCEPT ![c] = NoGraph]
    /\ alice' = [alice EXCEPT ![c] = NoTerm]
    /\ bob' = [bob EXCEPT ![c] = NoTerm]
    /\ pc' = [pc EXCEPT ![c] = "idle"]
    /\ UNCHANGED <<a, stdout, calls, roundErr>>

\* the steps inside a call (everything but the calls themselves)
Step(c) ==
    \/ CalcDetArray(c)
    \/ CalcDetPrint(c)
    \/ NewGraph(c)
    \/ BindAlice(c)
    \/ BindBob(c)
    \/ AddAliceName(c)
    \/ AddBobName(c)
    \/ AddAliceKnowsBob(c)
    \/ ReturnSerialize(c)

Next ==
    \E c \in Callers :
        \/ CallCalcDet(c)
        \/ CallSerializeGraph(c)
        \/ CalcDetArray(c)
        \/ CalcDetPrint(c)
        \/ NewGraph(c)
        \/ BindAlice(c)
        \/ BindBob(c)
        \/ AddAliceName(c)
        \/ AddBobName(c)
        \/ AddAliceKnowsBob(c)
        \/ ReturnSerialize(c)

Spec == Init /\ [][Next]_vars

\* a call that has started runs to its end: Python executes the statements
\* of a called function one after the other, with no suspension point
FairSpec == Spec /\ \A c \in Callers : WF_vars(Step(c))

(***************************************************************************)
(* The properties.                                                         *)
(***************************************************************************)
\* the three statements of the specification, written out
PlainIRI(v) == [kind |-> "URIRef", value |-> v, language |-> None, datatype |-> None]
PlainLiteral(v) == [kind |-> "Literal", value |-> v, language |-> None, datatype |-> None]

AliceNameAlice ==
    <<PlainIRI("http://example.org/alice"), PlainIRI("http://xmlns.com/foaf/0.1/name"),
      PlainLiteral("Alice")>>
BobNameBob ==
    <<PlainIRI("http://example.org/bob"), PlainIRI("http://xmlns.com/foaf/0.1/name"),
      PlainLiteral("Bob")>>
AliceKnowsBob ==
    <<PlainIRI("http://example.org/alice"), PlainIRI("http://xmlns.com/foaf/0.1/knows"),
      PlainIRI("http://example.org/bob")>>

FixedTriples == {AliceNameAlice, BobNameBob, AliceKnowsBob}

SerializeReturned(c) ==
    ret[c].fn = "serialize_graph" /\ ret[c].status = "returned"
CalcDetReturned(c) ==
    ret[c].fn = "calc_det" /\ ret[c].status = "returned"

InCalcDet == {"det7", "det8"}
InSerialize == {"ser12", "ser14", "ser15", "ser17", "ser18", "ser19", "ser21"}

\* C1: every line calc_det has printed carries the determinant a*d - b*c of
\* [[1,2],[3,4]], that is exactly the decimal value -2 (written -2 or -2.0).
C1_MessageCarriesMinusTwo ==
    \A i \in 1..Len(stdout) :
        stdout[i] \in {"Determinant is -2", "Determinant is -2.0"}

\* C2: the graph a call serializes holds exactly the three fixed triples; no
\* graph ever holds more than three triples or one triple twice; and adding
\* a triple a graph holds leaves the graph, and so its count, unchanged.
C2_ThreeUniqueTriples ==
    \A c \in Callers :
        /\ pc[c] = "ser21" => Triples(g[c]) = FixedTriples /\ GraphLen(g[c]) = 3
        /\ GraphLen(g[c]) <= 3
        /\ \A i, j \in 1..Len(g[c].store) : g[c].store[i] = g[c].store[j] => i = j
        /\ \A t \in Triples(g[c]) : GraphAdd(g[c], t) = g[c]

C2_Witness ==
    \E c \in Callers : pc[c] = "ser21" /\ GraphLen(g[c]) = 3

\* C3: a conformant parser reads the returned document as exactly the three
\* fixed triples, with the IRIs of the specification and with "Alice" and
\* "Bob" as plain literals without language tag or datatype.
C3_RoundTrip ==
    \A c \in Callers :
        SerializeReturned(c) =>
            /\ Parse(ret[c].value).ok
            /\ Parse(ret[c].value).triples = FixedTriples

C3_Witness ==
    \E c \in Callers : SerializeReturned(c) /\ Len(ret[c].value) > 0

\* C4: the step that ends a call of calc_det appends exactly one line,
\* "Determinant is <value>" with the computed determinant, to standard
\* output and returns nothing else (None); no other step of calc_det writes.
C4_OneLinePerCall ==
    [][\A c \in Callers :
          /\ (pc[c] = "det8" /\ pc'[c] # "det8") =>
                /\ stdout' = Append(stdout,
                        "Determinant is " \o FloatRepr(LinalgDet(Matrix, roundErr)))
                /\ CalcDetReturned(c)'
                /\ ret'[c].value = NoneValue
          /\ (pc[c] = "det7" /\ pc'[c] # "det7") => stdout' = stdout
          /\ (pc[c] = "idle" /\ pc'[c] = "det7") => stdout' = stdout]_vars

C4_Witness ==
    \E c \in Callers : CalcDetReturned(c) /\ pc[c] = "idle" /\ Len(stdout) >= 1

\* C5: every call of serialize_graph, however many calls came before it,
\* starts from a new empty graph and serializes exactly the three fixed
\* triples; outside a call no graph is held.
C5_NoStateLeak ==
    \A c \in Callers :
        /\ pc[c] = "ser14" => g[c] = EmptyGraph
        /\ pc[c] = "ser21" => Triples(g[c]) = FixedTriples /\ GraphLen(g[c]) = 3
        /\ pc[c] \in {"idle", "ser12"} \cup InCalcDet => g[c] = NoGraph

C5_Witness ==
    \E c \in Callers : SerializeReturned(c) /\ calls[c] >= 2 /\ pc[c] = "ser21"

\* the results of a call that runs alone
SoloLine == "Determinant is " \o FloatRepr(LinalgDet(Matrix, roundErr))
SoloDocument ==
    Serialize(GraphAdd(GraphAdd(GraphAdd(EmptyGraph, AliceNameAlice), BobNameBob),
                       AliceKnowsBob))

\* C6: in every interleaving of calls, each call of calc_det prints the line
\* it prints when it runs alone and each call of serialize_graph returns the
\* document it returns when it runs alone.
C6_NoInterference ==
    [][\A c \in Callers :
          /\ (pc[c] = "det8" /\ pc'[c] # "det8") =>
                stdout' = Append(stdout, SoloLine) /\ CalcDetReturned(c)'
          /\ (pc[c] = "ser21" /\ pc'[c] # "ser21") =>
                SerializeReturned(c)' /\ ret'[c].value = SoloDocument
          /\ (pc[c] \in {"ser17", "ser18", "ser19"} /\ pc'[c] # pc[c]) =>
                pc'[c] # "idle"]_vars

\* two calls, one of each function, are in progress at once, after a call
\* has already ended
C6_Witness ==
    \E c, d \in Callers :
        /\ pc[c] = "det8"
        /\ pc[d] = "ser19"
        /\ CalcDetReturned(d)

\* C7: all the lines calc_det has printed are the same line, and the matrix
\* a call holds is the constant [[1,2],[3,4]] until the call ends.
C7_Idempotent ==
    /\ \A i, j \in 1..Len(stdout) : stdout[i] = stdout[j]
    /\ \A c \in Callers : pc[c] = "det8" => a[c] = <<<<1, 2>>, <<3, 4>>>>

C7_Witness ==
    Len(stdout) >= 2 /\ \E c \in Callers : pc[c] = "det8"

\* C8: no step of serialize_graph writes to standard output or changes
\* anything outside the call (the other call sites' state); only its last
\* step changes what the call site holds, by returning the document.
C8_SerializeFrame ==
    [][\A c \in Callers :
          (pc[c] \in InSerialize /\ pc'[c] # pc[c]) =>
              /\ stdout' = stdout
              /\ a' = a
              /\ calls' = calls
              /\ roundErr' = roundErr
              /\ \A d \in Callers \ {c} :
                    /\ pc'[d] = pc[d]
                    /\ g'[d] = g[d]
                    /\ alice'[d] = alice[d]
                    /\ bob'[d] = bob[d]
                    /\ ret'[d] = ret[d]
              /\ IF pc[c] = "ser21"
                 THEN SerializeReturned(c)' /\ ret'[c].value # NoneValue
                 ELSE ret'[c] = ret[c]]_vars

C8_Witness ==
    \E c, d \in Callers :
        /\ c # d
        /\ SerializeReturned(c)
        /\ pc[c] = "idle"
        /\ pc[d] \in InSerialize
        /\ Len(stdout) >= 1

\* C9: no call ever ends in an error, and every call that has started ends,
\* with the call site holding the normal result of the function it called.
C9_Total ==
    /\ [](\A c \in Callers : ret[c].status # "raised")
    /\ \A c \in Callers :
          /\ (pc[c] \in InCalcDet) ~> (pc[c] = "idle" /\ CalcDetReturned(c))
          /\ (pc[c] \in InSerialize) ~> (pc[c] = "idle" /\ SerializeReturned(c))

C9_Witness ==
    \E c, d \in Callers :
        /\ pc[c] = "idle" /\ calls[c] >= 2 /\ CalcDetReturned(c)
        /\ pc[d] = "idle" /\ calls[d] >= 1 /\ SerializeReturned(d)

\* C10: within a call the graph starts empty, the adds happen in the order
\* (alice, name, "Alice"), (bob, name, "Bob"), (alice, knows, bob), each add
\* grows the graph by one triple, the graph is always a subset of the three
\* (pairwise distinct) triples, and only the full graph is serialized.
C10_AddOrder ==
    /\ [](/\ Cardinality(FixedTriples) = 3
          /\ \A c \in Callers :
                /\ Triples(g[c]) \subseteq FixedTriples
                /\ pc[c] \in {"ser14", "ser15", "ser17"} => g[c].store = <<>>
                /\ pc[c] = "ser18" => g[c].store = <<AliceNameAlice>>
                /\ pc[c] = "ser19" => g[c].store = <<AliceNameAlice, BobNameBob>>
                /\ pc[c] = "ser21" =>
                      g[c].store = <<AliceNameAlice, BobNameBob, AliceKnowsBob>>)
    /\ [][\A c \in Callers :
            /\ (pc[c] \in {"ser17", "ser18", "ser19"} /\ pc'[c] # pc[c]) =>
                  GraphLen(g'[c]) = GraphLen(g[c]) + 1
            /\ (pc[c] \in InSerialize /\ pc'[c] = "idle") =>
                  /\ pc[c] = "ser21"
                  /\ GraphLen(g[c]) = 3
                  /\ SerializeReturned(c)']_vars

C10_Witness ==
    \E c, d \in Callers : pc[c] = "ser19" /\ pc[d] = "ser18" /\ GraphLen(g[d]) = 1

====
